---- MODULE Spec2Model ----
(***************************************************************************)
(* Model of the asset chaincode (myassetchaincode.go): the SmartContract   *)
(* functions InitLedger, CreateAsset, UpdateAsset, ReadAsset,              *)
(* GetAssetHistory and AssetExists, run against the ledger stub            *)
(* (GetState / PutState / GetHistoryForKey / GetTxTimestamp).              *)
(*                                                                         *)
(* A chaincode invocation is one step, executed as one ledger transaction:  *)
(* the function body runs against the committed world state, its PutState  *)
(* calls are collected in a write set, and the write set is committed      *)
(* (world state and per-key history) exactly when the function returns a   *)
(* nil error.  The step records the call and its result in last; the next  *)
(* invocation starts after the caller has taken the response.              *)
(***************************************************************************)
EXTENDS Integers, Sequences, FiniteSets, TLC

(***************************************************************************)
(* Bounds of the model.                                                    *)
(***************************************************************************)
\* Largest number of committed transactions in one behaviour.
MaxTx == 2

(***************************************************************************)
(* Go values.  A nil pointer / nil slice / nil error is the empty tuple,   *)
(* a non-nil one a tuple around the value.                                 *)
(***************************************************************************)
Nil == <<>>
Some(x) == <<x>>

\* A Go string is a sequence of chunks; a chunk is either a run of valid
\* UTF-8 text or the single byte InvalidByte, which is not valid UTF-8.
InvalidByte == "\\xFF"
\* U+FFFD, which encoding/json writes in place of each invalid byte.
ReplacementChar == "\\uFFFD"
GoString(text) == IF text = "" THEN <<>> ELSE <<text>>

\* An error is the chain of its messages, outermost first (fmt.Errorf with
\* %v of the wrapped error); nil is the empty chain.
Errorf(msg, cause) == <<msg>> \o cause
NewError(msg) == <<msg>>

(***************************************************************************)
(* Timestamps.  The transaction timestamp is a protobuf Timestamp pointer  *)
(* (seconds, nanos); ptypes.Timestamp converts it into a time.Time, here   *)
(* [sec, nsec] with 0 <= nsec < NanosPerSecond.  The library's range       *)
(* (years 1 .. 9999, 10^9 nanoseconds per second) is scaled down.          *)
(***************************************************************************)
MinValidSeconds == -1
MaxValidSeconds == 3
NanosPerSecond == 2

\* time.Unix(sec, nsec): nsec outside [0, NanosPerSecond) carries into sec.
UnixTime(sec, nsec) ==
    [sec |-> sec + (nsec \div NanosPerSecond), nsec |-> nsec % NanosPerSecond]

\* time.Time{}: the zero time, January 1 of year 1, 00:00:00 UTC.
ZeroTime == [sec |-> MinValidSeconds, nsec |-> 0]

validateTimestamp(ts) ==
    IF ts = Nil THEN NewError("timestamp: nil Timestamp")
    ELSE IF ts[1].seconds < MinValidSeconds THEN NewError("timestamp: before 0001-01-01")
    ELSE IF ts[1].seconds >= MaxValidSeconds THEN NewError("timestamp: after 10000-01-01")
    ELSE IF ts[1].nanos < 0 \/ ts[1].nanos >= NanosPerSecond
         THEN NewError("timestamp: nanos not in range [0, 1e9)")
    ELSE Nil

\* ptypes.Timestamp(ts) returns (time.Time, error).
ptypesTimestamp(ts) ==
    [t   |-> IF ts = Nil THEN UnixTime(0, 0) ELSE UnixTime(ts[1].seconds, ts[1].nanos),
     err |-> validateTimestamp(ts)]

(***************************************************************************)
(* encoding/json on the Asset struct.  A marshalled asset is a JSON        *)
(* document: strings coerced to valid UTF-8, the time as its RFC 3339      *)
(* text <<seconds, nanoseconds>>.                                          *)
(***************************************************************************)
\* json.Marshal of a string: each invalid byte becomes U+FFFD.
jsonString(s) ==
    [i \in DOMAIN s |-> IF s[i] = InvalidByte THEN ReplacementChar ELSE s[i]]

\* time.Time.MarshalJSON: fails when the year is outside [0, 9999].
timeMarshalJSON(t) ==
    IF t.sec < MinValidSeconds - 1 \/ t.sec >= MaxValidSeconds
    THEN [text |-> Nil, err |-> NewError("Time.MarshalJSON: year outside of range [0,9999]")]
    ELSE [text |-> <<t.sec, t.nsec>>, err |-> Nil]

timeUnmarshalJSON(text) == [sec |-> text[1], nsec |-> text[2]]

jsonMarshal(asset) ==
    LET tm == timeMarshalJSON(asset.Timestamp) IN
    IF tm.err # Nil
    THEN [bytes |-> Nil, err |-> Errorf("json: error calling MarshalJSON for type time.Time", tm.err)]
    ELSE [bytes |-> Some([DealerID    |-> jsonString(asset.DealerID),
                          MSISDN      |-> jsonString(asset.MSISDN),
                          MPIN        |-> jsonString(asset.MPIN),
                          Balance     |-> asset.Balance,
                          Status      |-> jsonString(asset.Status),
                          TransAmount |-> asset.TransAmount,
                          TransType   |-> jsonString(asset.TransType),
                          Remarks     |-> jsonString(asset.Remarks),
                          Timestamp   |-> tm.text]),
          err   |-> Nil]

jsonUnmarshal(bytes) ==
    LET doc == bytes[1] IN
    [asset |-> [DealerID    |-> doc.DealerID,
                MSISDN      |-> doc.MSISDN,
                MPIN        |-> doc.MPIN,
                Balance     |-> doc.Balance,
                Status      |-> doc.Status,
                TransAmount |-> doc.TransAmount,
                TransType   |-> doc.TransType,
                Remarks     |-> doc.Remarks,
                Timestamp   |-> timeUnmarshalJSON(doc.Timestamp)],
     err   |-> Nil]

(***************************************************************************)
(* strconv.Atoi on a text given as a sequence of characters.  The texts    *)
(* of the model are far shorter than the 19 digits at which Atoi reports   *)
(* a range error, so that error is not modelled.                           *)
(***************************************************************************)
DigitChars == {"0", "1", "2", "3", "4", "5", "6", "7", "8", "9"}
DigitValue(c) ==
    CASE c = "0" -> 0 [] c = "1" -> 1 [] c = "2" -> 2 [] c = "3" -> 3
      [] c = "4" -> 4 [] c = "5" -> 5 [] c = "6" -> 6 [] c = "7" -> 7
      [] c = "8" -> 8 [] c = "9" -> 9

RECURSIVE ParseDigits(_, _)
ParseDigits(s, acc) ==
    IF s = <<>> THEN [val |-> acc, ok |-> TRUE]
    ELSE IF Head(s) \notin DigitChars THEN [val |-> 0, ok |-> FALSE]
    ELSE ParseDigits(Tail(s), acc * 10 + DigitValue(Head(s)))

\* Atoi reading the leading digits and ignoring what follows them, as C's
\* atoi does.
Atoi_LeadingDigits(s) ==
    LET signed == s # <<>> /\ Head(s) \in {"+", "-"}
        digits == IF signed THEN Tail(s) ELSE s
        n      == IF \E i \in DOMAIN digits : digits[i] \notin DigitChars
                  THEN (CHOOSE i \in DOMAIN digits :
                           /\ digits[i] \notin DigitChars
                           /\ \A j \in 1 .. (i - 1) : digits[j] \in DigitChars) - 1
                  ELSE Len(digits)
        p      == ParseDigits(SubSeq(digits, 1, n), 0)
    IN  IF n = 0
        THEN [val |-> 0, err |-> NewError("strconv.Atoi: invalid syntax")]
        ELSE [val |-> IF signed /\ Head(s) = "-" THEN 0 - p.val ELSE p.val,
              err |-> Nil]

Atoi(s) ==
    LET signed == s # <<>> /\ Head(s) \in {"+", "-"}
        digits == IF signed THEN Tail(s) ELSE s
        p      == ParseDigits(digits, 0)
    IN  IF digits = <<>> \/ ~p.ok
        THEN [val |-> 0, err |-> NewError("strconv.Atoi: invalid syntax")]
        ELSE [val |-> IF signed /\ Head(s) = "-" THEN 0 - p.val ELSE p.val,
              err |-> Nil]

(***************************************************************************)
(* State.                                                                  *)
(***************************************************************************)
VARIABLES
    world,      \* committed world state: key -> Nil or Some(JSON document)
    history,    \* committed history: key -> entries in commit order
    txCount,    \* number of committed transactions
    writes,     \* key -> number of writes to it by invocations that returned no error
    iterators,  \* number of history iterators opened and not closed
    proposals,  \* transactions endorsed concurrently, in order of endorsement
    last        \* the invocation in progress and what it returned

vars == <<world, history, txCount, writes, iterators, proposals, last>>

(***************************************************************************)
(* Inputs of the invocations.                                              *)
(***************************************************************************)
SeedKey1 == GoString("1234567890")
SeedKey2 == GoString("9876543210")
SeedKeys == {SeedKey1, SeedKey2}
Keys == SeedKeys \cup {GoString("5550001111")}

\* Arguments of CreateAsset: <<dealerID, mpin, balance, status, transType,
\* remarks>>.  The second dealerID is not valid UTF-8.
CreateInputs ==
    { <<GoString("D003"), GoString("4321"), 750, GoString("Blocked"),
        GoString("Credit"), GoString("opening")>>,
      <<<<"D", InvalidByte>>, GoString("0000"), 0, GoString("Active"),
        GoString(""), GoString("")>> }

\* Arguments of UpdateAsset: <<newBalanceStr, newStatus, transType, remarks>>.
UpdateInputs ==
    { << <<"5", "0", "0">>, GoString("Active"), GoString("Credit"), GoString("top-up") >>,
      << <<"-", "5">>, GoString("Blocked"), GoString(""), GoString("") >>,
      << <<"1", "0", "0", "0">>, GoString("Active"), GoString(""), GoString("") >>,
      << <<"a", "b", "c">>, GoString("Active"), GoString("Credit"), GoString("top-up") >>,
      << <<"5", "a">>, GoString("Blocked"), GoString("Debit"), GoString("") >>,
      << <<"-">>, GoString("Active"), GoString(""), GoString("note") >>,
      << <<>>, GoString("Active"), GoString(""), GoString("") >> }

\* Transaction timestamps the platform may hand to an invocation: none,
\* seconds out of range, nanos out of range, and two valid ones.
TxTimestamps ==
    { Nil,
      Some([seconds |-> MaxValidSeconds, nanos |-> 0]),
      Some([seconds |-> 0, nanos |-> NanosPerSecond]),
      Some([seconds |-> 0, nanos |-> 1]),
      Some([seconds |-> 1, nanos |-> 0]) }

\* Failures of the ledger stub that an invocation may meet.
NoFault == "none"
Faults == {NoFault, "GetState", "GetTxTimestamp", "PutState", "PutStateSecond",
           "GetHistoryForKey", "Next"}

\* The platform's side of one invocation: the transaction timestamp and the
\* stub failure it meets, if any.  A failing stub is met with one timestamp.
Platform(faults) ==
    {[ts |-> ts, fault |-> NoFault] : ts \in TxTimestamps}
        \cup {[ts |-> Some([seconds |-> 1, nanos |-> 0]), fault |-> f] : f \in faults}

(***************************************************************************)
(* The ledger stub, ctx.GetStub().                                         *)
(***************************************************************************)
GetState(key, fault) ==
    IF fault = "GetState"
    THEN [val |-> Nil, err |-> NewError("GetState failed")]
    ELSE [val |-> world[key], err |-> Nil]

\* PutState adds (key, value) to the write set of the transaction; puts is
\* the write set so far.
PutState(puts, key, value, fault) ==
    IF \/ fault = "PutState" /\ Len(puts) = 0
       \/ fault = "PutStateSecond" /\ Len(puts) = 1
    THEN [puts |-> puts, err |-> NewError("PutState failed")]
    ELSE [puts |-> Append(puts, [key |-> key, value |-> value]), err |-> Nil]

GetTxTimestamp(ts, fault) ==
    IF fault = "GetTxTimestamp"
    THEN [val |-> Nil, err |-> NewError("GetTxTimestamp failed")]
    ELSE [val |-> ts, err |-> Nil]

RECURSIVE Reverse(_)
Reverse(s) == IF s = <<>> THEN <<>> ELSE Append(Reverse(Tail(s)), Head(s))

\* GetHistoryForKey: an iterator over the committed modifications of key,
\* most recent first.
GetHistoryForKey(key, fault) ==
    IF fault = "GetHistoryForKey"
    THEN [iter |-> <<>>, err |-> NewError("GetHistoryForKey failed")]
    ELSE [iter |-> Reverse(history[key]), err |-> Nil]

\* resultsIterator.Next() on a non-empty iterator.
IteratorNext(iter, fault) ==
    IF fault = "Next"
    THEN [val |-> Nil, rest |-> iter, err |-> NewError("Next failed")]
    ELSE [val |-> Some(Head(iter)), rest |-> Tail(iter), err |-> Nil]

(***************************************************************************)
(* The contract functions.  Each returns its error, its result and the     *)
(* write set it built.                                                     *)
(***************************************************************************)
\* AssetExists with the nil test dropped: every key is reported absent.
AssetExists_NeverFound(msisdn, fault) ==
    LET got == GetState(msisdn, fault) IN
    IF got.err # Nil
    THEN [ret |-> FALSE, err |-> Errorf("failed to read from world state", got.err)]
    ELSE [ret |-> FALSE, err |-> Nil]

\* AssetExists treating an absent key as a failed read.
AssetExists_AbsentIsError(msisdn, fault) ==
    LET got == GetState(msisdn, fault) IN
    IF got.err # Nil \/ got.val = Nil
    THEN [ret |-> FALSE, err |-> Errorf("failed to read from world state", got.err)]
    ELSE [ret |-> TRUE, err |-> Nil]

\* AssetExists with the comparison inverted: assetJSON == nil.
AssetExists_Inverted(msisdn, fault) ==
    LET got == GetState(msisdn, fault) IN
    IF got.err # Nil
    THEN [ret |-> FALSE, err |-> Errorf("failed to read from world state", got.err)]
    ELSE [ret |-> got.val = Nil, err |-> Nil]

AssetExists(msisdn, fault) ==
    LET got == GetState(msisdn, fault) IN
    IF got.err # Nil
    THEN [ret |-> FALSE, err |-> Errorf("failed to read from world state", got.err)]
    ELSE [ret |-> got.val # Nil, err |-> Nil]

NotFoundMessage == "asset with MSISDN %s does not exist"

\* ReadAsset without the call of json.Unmarshal: the zero Asset is returned
\* for every key that holds a record.
ReadAsset_NotDecoded(msisdn, fault) ==
    LET got == GetState(msisdn, fault) IN
    IF got.err # Nil
    THEN [ret |-> Nil, err |-> Errorf("failed to read from world state", got.err)]
    ELSE IF got.val = Nil
    THEN [ret |-> Nil, err |-> NewError(NotFoundMessage)]
    ELSE [ret |-> Some([DealerID |-> GoString(""), MSISDN |-> GoString(""),
                        MPIN |-> GoString(""), Balance |-> 0, Status |-> GoString(""),
                        TransAmount |-> 0, TransType |-> GoString(""),
                        Remarks |-> GoString(""), Timestamp |-> ZeroTime]),
          err |-> Nil]

\* ReadAsset with the nil test dropped: an absent key reads as the zero Asset.
ReadAsset_AbsentAsZero(msisdn, fault) ==
    LET got == GetState(msisdn, fault) IN
    IF got.err # Nil
    THEN [ret |-> Nil, err |-> Errorf("failed to read from world state", got.err)]
    ELSE IF got.val = Nil
    THEN [ret |-> Some([DealerID |-> GoString(""), MSISDN |-> GoString(""),
                        MPIN |-> GoString(""), Balance |-> 0, Status |-> GoString(""),
                        TransAmount |-> 0, TransType |-> GoString(""),
                        Remarks |-> GoString(""), Timestamp |-> ZeroTime]),
          err |-> Nil]
    ELSE LET parsed == jsonUnmarshal(got.val) IN
         IF parsed.err # Nil
         THEN [ret |-> Nil, err |-> Errorf("error unmarshalling asset", parsed.err)]
         ELSE [ret |-> Some(parsed.asset), err |-> Nil]

ReadAsset(msisdn, fault) ==
    LET got == GetState(msisdn, fault) IN
    IF got.err # Nil
    THEN [ret |-> Nil, err |-> Errorf("failed to read from world state", got.err)]
    ELSE IF got.val = Nil
    THEN [ret |-> Nil, err |-> NewError(NotFoundMessage)]
    ELSE LET parsed == jsonUnmarshal(got.val) IN
         IF parsed.err # Nil
         THEN [ret |-> Nil, err |-> Errorf("error unmarshalling asset", parsed.err)]
         ELSE [ret |-> Some(parsed.asset), err |-> Nil]

\* SeedAssets with the second asset carrying the key of the first.
SeedAssets_SameKey ==
    << [DealerID |-> GoString("D001"), MSISDN |-> SeedKey1, MPIN |-> GoString("1234"),
        Balance |-> 1000, Status |-> GoString("Active"), TransAmount |-> 0,
        TransType |-> GoString(""), Remarks |-> GoString(""), Timestamp |-> ZeroTime],
       [DealerID |-> GoString("D002"), MSISDN |-> SeedKey1, MPIN |-> GoString("5678"),
        Balance |-> 1500, Status |-> GoString("Active"), TransAmount |-> 0,
        TransType |-> GoString(""), Remarks |-> GoString(""), Timestamp |-> ZeroTime] >>

\* The seed assets of InitLedger; their Timestamp field is not set.
SeedAssets ==
    << [DealerID |-> GoString("D001"), MSISDN |-> SeedKey1, MPIN |-> GoString("1234"),
        Balance |-> 1000, Status |-> GoString("Active"), TransAmount |-> 0,
        TransType |-> GoString(""), Remarks |-> GoString(""), Timestamp |-> ZeroTime],
       [DealerID |-> GoString("D002"), MSISDN |-> SeedKey2, MPIN |-> GoString("5678"),
        Balance |-> 1500, Status |-> GoString("Active"), TransAmount |-> 0,
        TransType |-> GoString(""), Remarks |-> GoString(""), Timestamp |-> ZeroTime] >>

\* InitLedgerLoop with an existence check as in CreateAsset: an asset whose
\* key holds a record is skipped.
RECURSIVE InitLedgerLoop_SkipsExisting(_, _, _)
InitLedgerLoop_SkipsExisting(assets, puts, fault) ==
    IF assets = <<>> THEN [err |-> Nil, puts |-> puts]
    ELSE LET asset == Head(assets)
             m     == jsonMarshal(asset)
         IN  IF world[asset.MSISDN] # Nil
             THEN InitLedgerLoop_SkipsExisting(Tail(assets), puts, fault)
             ELSE IF m.err # Nil THEN [err |-> m.err, puts |-> puts]
             ELSE LET put == PutState(puts, asset.MSISDN, m.bytes, fault) IN
                  IF put.err # Nil
                  THEN [err |-> Errorf("failed to put to world state", put.err),
                        puts |-> put.puts]
                  ELSE InitLedgerLoop_SkipsExisting(Tail(assets), put.puts, fault)

\* The loop of InitLedger over the assets still to be written.
RECURSIVE InitLedgerLoop(_, _, _)
InitLedgerLoop(assets, puts, fault) ==
    IF assets = <<>> THEN [err |-> Nil, puts |-> puts]
    ELSE LET asset == Head(assets)
             m     == jsonMarshal(asset)
         IN  IF m.err # Nil THEN [err |-> m.err, puts |-> puts]
             ELSE LET put == PutState(puts, asset.MSISDN, m.bytes, fault) IN
                  IF put.err # Nil
                  THEN [err |-> Errorf("failed to put to world state", put.err),
                        puts |-> put.puts]
                  ELSE InitLedgerLoop(Tail(assets), put.puts, fault)

InitLedger(fault) == InitLedgerLoop(SeedAssets, <<>>, fault)

AlreadyExistsMessage == "asset with MSISDN %s already exists"

\* NewAsset leaving Balance at its zero value.
NewAsset_BalanceUnset(dealerID, msisdn, mpin, balance, status, transType, remarks) ==
    [DealerID |-> dealerID, MSISDN |-> msisdn, MPIN |-> mpin, Balance |-> 0,
     Status |-> status, TransAmount |-> 0, TransType |-> GoString(""),
     Remarks |-> GoString(""), Timestamp |-> ZeroTime]

\* NewAsset taking TransType and Remarks from the arguments.
NewAsset_KeepsRemarks(dealerID, msisdn, mpin, balance, status, transType, remarks) ==
    [DealerID |-> dealerID, MSISDN |-> msisdn, MPIN |-> mpin, Balance |-> balance,
     Status |-> status, TransAmount |-> 0, TransType |-> transType,
     Remarks |-> remarks, Timestamp |-> ZeroTime]

\* The asset CreateAsset builds from its arguments.
NewAsset(dealerID, msisdn, mpin, balance, status, transType, remarks) ==
    [DealerID |-> dealerID, MSISDN |-> msisdn, MPIN |-> mpin, Balance |-> balance,
     Status |-> status, TransAmount |-> 0, TransType |-> GoString(""),
     Remarks |-> GoString(""), Timestamp |-> ZeroTime]

\* TransactionTime with the converted time never assigned: the asset keeps
\* the zero time.
TransactionTime_Unset(ts, fault) ==
    LET txTimestamp == GetTxTimestamp(ts, fault) IN
    IF txTimestamp.err # Nil
    THEN [t |-> ZeroTime,
          err |-> Errorf("error getting transaction timestamp", txTimestamp.err)]
    ELSE LET conv == ptypesTimestamp(txTimestamp.val) IN
         IF conv.err # Nil
         THEN [t |-> ZeroTime, err |-> Errorf("error converting timestamp", conv.err)]
         ELSE [t |-> ZeroTime, err |-> Nil]

\* TransactionTime going on after a failed step: the errors of
\* GetTxTimestamp and ptypes.Timestamp are dropped.
TransactionTime_IgnoresError(ts, fault) ==
    LET txTimestamp == GetTxTimestamp(ts, fault) IN
    IF txTimestamp.err # Nil
    THEN [t |-> ZeroTime, err |-> Nil]
    ELSE [t |-> ptypesTimestamp(txTimestamp.val).t, err |-> Nil]

\* The transaction time both CreateAsset and UpdateAsset stamp on the asset:
\* GetTxTimestamp, then ptypes.Timestamp.
TransactionTime(ts, fault) ==
    LET txTimestamp == GetTxTimestamp(ts, fault) IN
    IF txTimestamp.err # Nil
    THEN [t |-> ZeroTime,
          err |-> Errorf("error getting transaction timestamp", txTimestamp.err)]
    ELSE LET conv == ptypesTimestamp(txTimestamp.val) IN
         IF conv.err # Nil
         THEN [t |-> conv.t, err |-> Errorf("error converting timestamp", conv.err)]
         ELSE [t |-> conv.t, err |-> Nil]

CreateAsset(dealerID, msisdn, mpin, balance, status, transType, remarks, ts, fault) ==
    LET e == AssetExists(msisdn, fault) IN
    IF e.err # Nil
    THEN [err |-> Errorf("error checking asset existence", e.err), puts |-> <<>>]
    ELSE IF e.ret
    THEN [err |-> NewError(AlreadyExistsMessage), puts |-> <<>>]
    ELSE LET asset == NewAsset(dealerID, msisdn, mpin, balance, status, transType, remarks)
             time  == TransactionTime(ts, fault)
         IN  IF time.err # Nil THEN [err |-> time.err, puts |-> <<>>]
             ELSE LET m == jsonMarshal([asset EXCEPT !.Timestamp = time.t]) IN
                  IF m.err # Nil
                  THEN [err |-> Errorf("error marshalling asset", m.err), puts |-> <<>>]
                  ELSE PutState(<<>>, msisdn, m.bytes, fault)

\* UpdateFields assigning MPIN as well: the secret is cleared.
UpdateFields_ClearsMPIN(asset, newBalance, newStatus, transType, remarks) ==
    LET a1 == [asset EXCEPT !.Balance = newBalance]
        a2 == [a1 EXCEPT !.Status = newStatus]
        a3 == [a2 EXCEPT !.TransAmount = newBalance - a2.Balance]
        a4 == [a3 EXCEPT !.TransType = transType]
    IN  [a4 EXCEPT !.Remarks = remarks, !.MPIN = GoString("")]

\* The field assignments of UpdateAsset, in the order the code makes them.
UpdateFields(asset, newBalance, newStatus, transType, remarks) ==
    LET a1 == [asset EXCEPT !.Balance = newBalance]
        a2 == [a1 EXCEPT !.Status = newStatus]
        a3 == [a2 EXCEPT !.TransAmount = newBalance - a2.Balance]
        a4 == [a3 EXCEPT !.TransType = transType]
    IN  [a4 EXCEPT !.Remarks = remarks]

\* UpdateAsset with a guard against updates that change nothing: it returns
\* nil without writing when the new values equal the stored ones.
UpdateAsset_SkipsUnchanged(msisdn, newBalanceStr, newStatus, transType, remarks, ts, fault) ==
    LET r == ReadAsset(msisdn, fault) IN
    IF r.err # Nil
    THEN [err |-> Errorf("error reading asset", r.err), puts |-> <<>>]
    ELSE LET newBalance == Atoi(newBalanceStr) IN
         IF newBalance.err # Nil
         THEN [err |-> Errorf("error converting newBalanceStr to integer", newBalance.err),
               puts |-> <<>>]
         ELSE IF /\ r.ret[1].Balance = newBalance.val
                 /\ r.ret[1].Status = newStatus
                 /\ r.ret[1].TransType = transType
                 /\ r.ret[1].Remarks = remarks
         THEN [err |-> Nil, puts |-> <<>>]
         ELSE LET asset == UpdateFields(r.ret[1], newBalance.val, newStatus, transType, remarks)
                  time  == TransactionTime(ts, fault)
              IN  IF time.err # Nil THEN [err |-> time.err, puts |-> <<>>]
                  ELSE LET m == jsonMarshal([asset EXCEPT !.Timestamp = time.t]) IN
                       IF m.err # Nil
                       THEN [err |-> Errorf("error marshalling asset", m.err), puts |-> <<>>]
                       ELSE PutState(<<>>, msisdn, m.bytes, fault)

UpdateAsset(msisdn, newBalanceStr, newStatus, transType, remarks, ts, fault) ==
    LET r == ReadAsset(msisdn, fault) IN
    IF r.err # Nil
    THEN [err |-> Errorf("error reading asset", r.err), puts |-> <<>>]
    ELSE LET newBalance == Atoi(newBalanceStr) IN
         IF newBalance.err # Nil
         THEN [err |-> Errorf("error converting newBalanceStr to integer", newBalance.err),
               puts |-> <<>>]
         ELSE LET asset == UpdateFields(r.ret[1], newBalance.val, newStatus, transType, remarks)
                  time  == TransactionTime(ts, fault)
              IN  IF time.err # Nil THEN [err |-> time.err, puts |-> <<>>]
                  ELSE LET m == jsonMarshal([asset EXCEPT !.Timestamp = time.t]) IN
                       IF m.err # Nil
                       THEN [err |-> Errorf("error marshalling asset", m.err), puts |-> <<>>]
                       ELSE PutState(<<>>, msisdn, m.bytes, fault)

\* GetAssetHistoryLoop assigning the entry instead of appending it: only the
\* entry read last is kept.
RECURSIVE GetAssetHistoryLoop_KeepsLast(_, _, _)
GetAssetHistoryLoop_KeepsLast(iter, entries, fault) ==
    IF iter = <<>> THEN [ret |-> entries, err |-> Nil]
    ELSE LET queryResponse == IteratorNext(iter, fault) IN
         IF queryResponse.err # Nil
         THEN [ret |-> Nil, err |-> Errorf("error iterating through history", queryResponse.err)]
         ELSE LET conv == ptypesTimestamp(queryResponse.val[1].Timestamp) IN
              IF conv.err # Nil
              THEN [ret |-> Nil, err |-> Errorf("error converting timestamp", conv.err)]
              ELSE GetAssetHistoryLoop_KeepsLast(queryResponse.rest,
                       <<[TxID |-> queryResponse.val[1].TxId, Timestamp |-> conv.t]>>,
                       fault)

\* The loop of GetAssetHistory over the rest of the iterator.
RECURSIVE GetAssetHistoryLoop(_, _, _)
GetAssetHistoryLoop(iter, entries, fault) ==
    IF iter = <<>> THEN [ret |-> entries, err |-> Nil]
    ELSE LET queryResponse == IteratorNext(iter, fault) IN
         IF queryResponse.err # Nil
         THEN [ret |-> Nil, err |-> Errorf("error iterating through history", queryResponse.err)]
         ELSE LET conv == ptypesTimestamp(queryResponse.val[1].Timestamp) IN
              IF conv.err # Nil
              THEN [ret |-> Nil, err |-> Errorf("error converting timestamp", conv.err)]
              ELSE GetAssetHistoryLoop(queryResponse.rest,
                       Append(entries, [TxID |-> queryResponse.val[1].TxId, Timestamp |-> conv.t]),
                       fault)

\* GetAssetHistory closing the iterator after the loop instead of deferring
\* the call: the returns inside the loop leave it open.
GetAssetHistory_ClosesAfterLoop(msisdn, fault) ==
    LET resultsIterator == GetHistoryForKey(msisdn, fault) IN
    IF resultsIterator.err # Nil
    THEN [ret |-> Nil, err |-> Errorf("error getting asset history", resultsIterator.err),
          opened |-> 0, closed |-> 0]
    ELSE LET res == GetAssetHistoryLoop(resultsIterator.iter, <<>>, fault) IN
         [ret |-> res.ret, err |-> res.err, opened |-> 1,
          closed |-> IF res.err = Nil THEN 1 ELSE 0]

\* GetAssetHistory: what it returns, how many iterators it opened and how
\* many times it called Close.  The failed GetHistoryForKey returns before
\* the defer statement; after it, the deferred resultsIterator.Close() runs
\* once when the function returns, whichever return statement is taken.
GetAssetHistory(msisdn, fault) ==
    LET resultsIterator == GetHistoryForKey(msisdn, fault) IN
    IF resultsIterator.err # Nil
    THEN [ret |-> Nil, err |-> Errorf("error getting asset history", resultsIterator.err),
          opened |-> 0, closed |-> 0]
    ELSE LET res == GetAssetHistoryLoop(resultsIterator.iter, <<>>, fault) IN
         [ret |-> res.ret, err |-> res.err, opened |-> 1, closed |-> 1]

(***************************************************************************)
(* Transactions.                                                           *)
(***************************************************************************)
\* Identifier of the n-th committed transaction.
TxID(n) == <<"tx", n>>

PutKeys(puts) == {puts[i].key : i \in DOMAIN puts}
\* The value the write set leaves under key: that of its last put.
PutValue(puts, key) ==
    puts[CHOOSE i \in DOMAIN puts :
            /\ puts[i].key = key
            /\ \A j \in DOMAIN puts : puts[j].key = key => j <= i].value

\* Commit keeping, for a key written, only the entry of the last write.
Commit_KeepsNewestOnly(fn, ts, res) ==
    IF res.err = Nil
    THEN /\ txCount < MaxTx
         /\ world' = [k \in Keys |->
                IF k \in PutKeys(res.puts) THEN PutValue(res.puts, k) ELSE world[k]]
         /\ history' = [k \in Keys |->
                IF k \in PutKeys(res.puts)
                THEN <<[TxId |-> TxID(txCount + 1), Timestamp |-> ts,
                        Value |-> PutValue(res.puts, k), Fn |-> fn]>>
                ELSE history[k]]
         /\ txCount' = txCount + 1
    ELSE UNCHANGED <<world, history, txCount>>

\* End of a transaction that ran function fn with timestamp ts: the write
\* set is committed exactly when the function returned no error, and every
\* key written gets one history entry.
Commit(fn, ts, res) ==
    IF res.err = Nil
    THEN /\ txCount < MaxTx
         /\ world' = [k \in Keys |->
                IF k \in PutKeys(res.puts) THEN PutValue(res.puts, k) ELSE world[k]]
         /\ history' = [k \in Keys |->
                IF k \in PutKeys(res.puts)
                THEN Append(history[k], [TxId |-> TxID(txCount + 1), Timestamp |-> ts,
                                         Value |-> PutValue(res.puts, k), Fn |-> fn])
                ELSE history[k]]
         /\ txCount' = txCount + 1
    ELSE UNCHANGED <<world, history, txCount>>

\* The writes counted for an invocation that wrote to the keys targets and
\* returned err.
Count(targets, err) ==
    writes' = [k \in Keys |->
        IF err = Nil /\ k \in targets THEN writes[k] + 1 ELSE writes[k]]

\* What the invocation in progress called and got back; NoCall between
\* invocations.
Call(fn, key, args, fault, err, asset, exists, entries) ==
    [fn |-> fn, key |-> key, args |-> args, fault |-> fault, err |-> err,
     asset |-> asset, exists |-> exists, entries |-> entries]

NoArgs == <<>>
NoCall == Call("", GoString(""), NoArgs, NoFault, Nil, Nil, FALSE, <<>>)

Init ==
    /\ world = [k \in Keys |-> Nil]
    /\ history = [k \in Keys |-> <<>>]
    /\ txCount = 0
    /\ writes = [k \in Keys |-> 0]
    /\ iterators = 0
    /\ proposals = <<>>
    /\ last = NoCall

InitLedgerTx ==
    \E p \in Platform({"PutState", "PutStateSecond"}) :
        LET res == InitLedger(p.fault) IN
        /\ last = NoCall
        /\ Commit("InitLedger", p.ts, res)
        /\ Count(SeedKeys, res.err)
        /\ last' = Call("InitLedger", GoString(""), NoArgs, p.fault, res.err, Nil, FALSE, <<>>)
        /\ UNCHANGED <<iterators, proposals>>

CreateAssetTx ==
    \E msisdn \in Keys, in \in CreateInputs,
       p \in Platform({"GetState", "GetTxTimestamp", "PutState"}) :
        LET res == CreateAsset(in[1], msisdn, in[2], in[3], in[4], in[5], in[6], p.ts, p.fault)
        IN
        /\ last = NoCall
        /\ Commit("CreateAsset", p.ts, res)
        /\ Count({msisdn}, res.err)
        /\ last' = Call("CreateAsset", msisdn, in, p.fault, res.err, Nil, FALSE, <<>>)
        /\ UNCHANGED <<iterators, proposals>>

UpdateAssetTx ==
    \E msisdn \in Keys, in \in UpdateInputs,
       p \in Platform({"GetState", "GetTxTimestamp", "PutState"}) :
        LET res == UpdateAsset(msisdn, in[1], in[2], in[3], in[4], p.ts, p.fault)
        IN
        /\ last = NoCall
        /\ Commit("UpdateAsset", p.ts, res)
        /\ Count({msisdn}, res.err)
        /\ last' = Call("UpdateAsset", msisdn, in, p.fault, res.err, Nil, FALSE, <<>>)
        /\ UNCHANGED <<iterators, proposals>>

ReadAssetTx ==
    \E msisdn \in Keys, fault \in {NoFault, "GetState"} :
        LET res == ReadAsset(msisdn, fault) IN
        /\ last = NoCall
        /\ last' = Call("ReadAsset", msisdn, NoArgs, fault, res.err, res.ret, FALSE, <<>>)
        /\ UNCHANGED <<world, history, txCount, writes, iterators, proposals>>

AssetExistsTx ==
    \E msisdn \in Keys, fault \in {NoFault, "GetState"} :
        LET res == AssetExists(msisdn, fault) IN
        /\ last = NoCall
        /\ last' = Call("AssetExists", msisdn, NoArgs, fault, res.err, Nil, res.ret, <<>>)
        /\ UNCHANGED <<world, history, txCount, writes, iterators, proposals>>

GetAssetHistoryTx ==
    \E msisdn \in Keys, fault \in {NoFault, "GetHistoryForKey", "Next"} :
        LET res == GetAssetHistory(msisdn, fault) IN
        /\ last = NoCall
        /\ last' = Call("GetAssetHistory", msisdn, NoArgs, fault, res.err, Nil, FALSE, res.ret)
        /\ iterators' = iterators + res.opened - res.closed
        /\ UNCHANGED <<world, history, txCount, writes, proposals>>

\* The caller takes the response; the next invocation can start.
Respond ==
    /\ last # NoCall
    /\ last' = NoCall
    /\ UNCHANGED <<world, history, txCount, writes, iterators, proposals>>

Next ==
    \/ InitLedgerTx
    \/ CreateAssetTx
    \/ UpdateAssetTx
    \/ ReadAssetTx
    \/ AssetExistsTx
    \/ GetAssetHistoryTx
    \/ Respond

Spec == Init /\ [][Next]_vars

(***************************************************************************)
(* Interleaved invocations.  A submitted transaction is first simulated    *)
(* (endorsed) against the committed state, where PutState only collects    *)
(* the write set and GetState records the version of the key it read; the  *)
(* platform later validates the endorsed transactions one at a time, in    *)
(* any order, and commits a write set only if every key the simulation     *)
(* read still has the version it read.                                     *)
(***************************************************************************)
\* Transactions submitted in one behaviour of the interleaved specification.
MaxProposals == MaxTx + 1

\* Version of a key: the number of committed writes to it.
Version(key) == Len(history[key])

\* ReadSet without the GetState of the existence check and of ReadAsset: the
\* functions write blind.
ReadSet_BlindWrite(fn, key) == {}

\* The keys an invocation reads with GetState before its PutState:
\* CreateAsset (in AssetExists) and UpdateAsset (in ReadAsset) read their
\* key, InitLedger reads nothing.
ReadSet(fn, key) == IF fn = "InitLedger" THEN {} ELSE {key}

\* An endorsed transaction whose read of some key is no longer current.
Stale(t) == \E k \in t.reads : Version(k) # t.seen[k]

\* The client submits the transaction of an invocation that returned no
\* error; an invocation that returned an error is not submitted.
Submit(fn, key, args, ts, res) ==
    /\ res.err = Nil
    /\ Len(proposals) < MaxProposals
    /\ proposals' = Append(proposals,
           [fn |-> fn, key |-> key, args |-> args, ts |-> ts, puts |-> res.puts,
            reads |-> ReadSet(fn, key), seen |-> [k \in Keys |-> Version(k)],
            status |-> "endorsed"])
    /\ UNCHANGED <<world, history, txCount, writes, iterators, last>>

\* The transaction timestamps of the interleaved invocations: those that
\* convert.  CreateAsset and UpdateAsset return an error with any other,
\* and their transaction is then not submitted.
SubmittedTimestamps ==
    {Some([seconds |-> 0, nanos |-> 1]), Some([seconds |-> 1, nanos |-> 0])}

EndorseInitLedger ==
    \E ts \in SubmittedTimestamps :
        Submit("InitLedger", GoString(""), NoArgs, ts, InitLedger(NoFault))

EndorseCreateAsset ==
    \E msisdn \in Keys, in \in CreateInputs, ts \in SubmittedTimestamps :
        Submit("CreateAsset", msisdn, in, ts,
               CreateAsset(in[1], msisdn, in[2], in[3], in[4], in[5], in[6], ts, NoFault))

EndorseUpdateAsset ==
    \E msisdn \in Keys, in \in UpdateInputs, ts \in SubmittedTimestamps :
        Submit("UpdateAsset", msisdn, in, ts,
               UpdateAsset(msisdn, in[1], in[2], in[3], in[4], ts, NoFault))

\* Validation of an endorsed transaction whose reads are current: its write
\* set is committed.
CommitValid ==
    \E n \in DOMAIN proposals :
        LET t == proposals[n] IN
        /\ t.status = "endorsed"
        /\ ~Stale(t)
        /\ txCount < MaxTx
        /\ world' = [k \in Keys |->
               IF k \in PutKeys(t.puts) THEN PutValue(t.puts, k) ELSE world[k]]
        /\ history' = [k \in Keys |->
               IF k \in PutKeys(t.puts)
               THEN Append(history[k], [TxId |-> TxID(n), Timestamp |-> t.ts,
                                        Value |-> PutValue(t.puts, k), Fn |-> t.fn])
               ELSE history[k]]
        /\ txCount' = txCount + 1
        /\ Count(PutKeys(t.puts), Nil)
        /\ proposals' = [proposals EXCEPT ![n].status = "committed"]
        /\ UNCHANGED <<iterators, last>>

\* Validation of an endorsed transaction with a stale read: it is marked
\* invalid and its write set is dropped.
Invalidate ==
    \E n \in DOMAIN proposals :
        /\ proposals[n].status = "endorsed"
        /\ Stale(proposals[n])
        /\ proposals' = [proposals EXCEPT ![n].status = "invalid"]
        /\ UNCHANGED <<world, history, txCount, writes, iterators, last>>

NextConc ==
    \/ EndorseInitLedger
    \/ EndorseCreateAsset
    \/ EndorseUpdateAsset
    \/ CommitValid
    \/ Invalidate

SpecConc == Init /\ [][NextConc]_vars

(***************************************************************************)
(* Properties.                                                             *)
(***************************************************************************)
\* The asset stored under key (key holds a record).
Stored(key) == jsonUnmarshal(world[key]).asset
HasRecord(key) == world[key] # Nil
CreatesIn(key) == {i \in DOMAIN history[key] : history[key][i].Fn = "CreateAsset"}

\* C1: a CreateAsset on a key that already holds a record returns an error,
\* the "already exists" error unless the existence check itself could not
\* read the store, and writes nothing: world state and history are the same
\* before and after.  No key ever has more than one accepted creation.
C1_CreateOnExistingKeyRejected ==
    /\ [][(last'.fn = "CreateAsset" /\ HasRecord(last'.key)) =>
            /\ last'.err # Nil
            /\ (last'.fault # "GetState" => last'.err = NewError(AlreadyExistsMessage))
            /\ world' = world
            /\ history' = history]_vars
    /\ [](\A k \in Keys : Cardinality(CreatesIn(k)) <= 1)

C1_Witness ==
    /\ last.fn = "CreateAsset"
    /\ last.err = NewError(AlreadyExistsMessage)
    /\ HasRecord(last.key)
    /\ Cardinality(CreatesIn(last.key)) = 1

\* The integer a balance text of the inputs denotes.
DenotedBalance(text) ==
    CASE text = <<"5", "0", "0">> -> 500
      [] text = <<"-", "5">> -> 0 - 5
      [] text = <<"1", "0", "0", "0">> -> 1000

\* C2: after a successful UpdateAsset the stored record has the new balance
\* and TransAmount = new balance - balance stored before the update.
C2_UpdateDeltaAgainstOldBalance ==
    [][(last'.fn = "UpdateAsset" /\ last'.err = Nil) =>
          LET old == Stored(last'.key).Balance
              new == DenotedBalance(last'.args[1])
              rec == jsonUnmarshal(world'[last'.key]).asset
          IN  rec.Balance = new /\ rec.TransAmount = new - old]_vars

ReadOnlyFns == {"ReadAsset", "AssetExists", "GetAssetHistory"}

\* C3: for every key, a GetAssetHistory that returns no error returns as
\* many entries as there were accepted writes to the key (one per
\* successful CreateAsset and UpdateAsset, one per seed key per successful
\* InitLedger), which is the number of entries the history iterator holds;
\* an invocation that fails, and every ReadAsset, AssetExists and
\* GetAssetHistory, adds no entry.
C3_HistoryCountsAcceptedWrites ==
    /\ [](\A k \in Keys :
            /\ Len(GetHistoryForKey(k, NoFault).iter) = writes[k]
            /\ LET h == GetAssetHistory(k, NoFault) IN
               h.err = Nil => Len(h.ret) = writes[k])
    /\ [](last.fn = "GetAssetHistory" /\ last.err = Nil =>
            Len(last.entries) = writes[last.key])
    /\ [][(last'.err # Nil \/ last'.fn \in ReadOnlyFns) => history' = history]_vars

C3_Witness ==
    /\ last.fn = "GetAssetHistory"
    /\ last.err = Nil
    /\ Len(last.entries) = 2
    /\ writes[last.key] = 2

\* The history entry of the most recent committed write to key, and the
\* time GetAssetHistory reports for it.
NewestEntry(key) == history[key][Len(history[key])]
NewestTime(key) == ptypesTimestamp(NewestEntry(key).Timestamp)

\* C4 as claimed: the Timestamp of every stored record is the transaction
\* time of the most recent accepted write to its key, whichever function
\* made that write.
C4_TimestampIsLatestWriteTime ==
    \A k \in Keys :
        HasRecord(k) /\ NewestTime(k).err = Nil =>
            ReadAsset(k, NoFault).ret[1].Timestamp = NewestTime(k).t

\* C4 as amended: the Timestamp of a stored record whose most recent
\* accepted write was made by CreateAsset or UpdateAsset is the transaction
\* time of that write; a record last written by InitLedger has the zero
\* time, whatever the transaction time was; an invocation that returns an
\* error changes no stored record.
C4_TimestampIsLatestCreateOrUpdateTime ==
    /\ [](\A k \in Keys :
            HasRecord(k) =>
                LET r == ReadAsset(k, NoFault) IN
                /\ r.err = Nil
                /\ IF NewestEntry(k).Fn \in {"CreateAsset", "UpdateAsset"}
                   THEN NewestTime(k).err = Nil /\ r.ret[1].Timestamp = NewestTime(k).t
                   ELSE r.ret[1].Timestamp = ZeroTime)
    /\ [][last'.err # Nil => world' = world]_vars

\* An UpdateAsset has replaced a record stamped at another time.
C4_Witness ==
    /\ last.fn = "UpdateAsset"
    /\ last.err = Nil
    /\ Len(history[last.key]) = 2
    /\ NewestTime(last.key).err = Nil
    /\ Stored(last.key).Timestamp = NewestTime(last.key).t
    /\ Stored(last.key).Timestamp # jsonUnmarshal(history[last.key][1].Value).asset.Timestamp

\* A balance text is numeric when it is an optional sign followed by one
\* or more decimal digits.
IsNumericText(text) ==
    LET body == IF text # <<>> /\ text[1] \in {"+", "-"} THEN Tail(text) ELSE text IN
    body # <<>> /\ \A i \in DOMAIN body : body[i] \in DigitChars

ConversionMessage == "error converting newBalanceStr to integer"

\* C5: an UpdateAsset of a key that holds a record with a balance text that
\* is not numeric returns the balance conversion error (unless the record
\* could not be read from the store) and leaves world state and history
\* as they were.
C5_NonNumericBalanceRejected ==
    [][(/\ last'.fn = "UpdateAsset"
        /\ HasRecord(last'.key)
        /\ ~IsNumericText(last'.args[1])) =>
            /\ last'.err # Nil
            /\ (last'.fault # "GetState" => Head(last'.err) = ConversionMessage)
            /\ world' = world
            /\ history' = history]_vars

C5_Witness ==
    /\ last.fn = "UpdateAsset"
    /\ HasRecord(last.key)
    /\ last.args[1] = <<"5", "a">>
    /\ Head(last.err) = ConversionMessage

\* A string as encoding/json stores it.
StoredText(text) ==
    [i \in DOMAIN text |-> IF text[i] = InvalidByte THEN ReplacementChar ELSE text[i]]
IsValidUTF8(text) == \A i \in DOMAIN text : text[i] # InvalidByte

\* What the three read functions return for the key of a CreateAsset that
\* succeeded, with the strings expected in the record.
AfterCreate(dealerID, mpin, status) ==
    LET e == AssetExists(last.key, NoFault)
        r == ReadAsset(last.key, NoFault)
        h == GetAssetHistory(last.key, NoFault)
    IN  /\ e.err = Nil /\ e.ret
        /\ r.err = Nil
        /\ r.ret[1].Balance = last.args[3]
        /\ r.ret[1].DealerID = dealerID
        /\ r.ret[1].MPIN = mpin
        /\ r.ret[1].Status = status
        /\ h.err = Nil
        /\ Len(h.ret) = 1

NeverWritten(key) == writes[key] = 0

\* C7: for every key that no accepted write has targeted, AssetExists
\* returns false and no error and ReadAsset returns the not-found error
\* and no asset; AssetExists returns an error only when the store read
\* itself fails.
C7_NeverWrittenKeyIsAbsent ==
    /\ \A k \in Keys :
          NeverWritten(k) =>
              /\ AssetExists(k, NoFault) = [ret |-> FALSE, err |-> Nil]
              /\ ReadAsset(k, NoFault) = [ret |-> Nil, err |-> NewError(NotFoundMessage)]
    /\ (last.fn = "AssetExists" /\ NeverWritten(last.key) /\ last.fault = NoFault) =>
          (last.err = Nil /\ ~last.exists)
    /\ (last.fn = "ReadAsset" /\ NeverWritten(last.key) /\ last.fault = NoFault) =>
          (last.err = NewError(NotFoundMessage) /\ last.asset = Nil)
    /\ (last.fn = "AssetExists" /\ last.err # Nil) => last.fault = "GetState"

\* ReadAsset has reported a never-written key missing while another key
\* holds a record.
C7_Witness ==
    /\ last.fn = "ReadAsset"
    /\ NeverWritten(last.key)
    /\ last.err = NewError(NotFoundMessage)
    /\ AssetExists(last.key, NoFault) = [ret |-> FALSE, err |-> Nil]
    /\ \E k \in Keys : HasRecord(k)

\* C8: an UpdateAsset of a key that holds no record returns an error, the
\* not-found error of the read unless the store read itself fails,
\* whatever the other arguments are, and leaves world state and history as
\* they were: the key still holds no record.
C8_UpdateOfAbsentKeyRejected ==
    [][(last'.fn = "UpdateAsset" /\ ~HasRecord(last'.key)) =>
            /\ last'.err # Nil
            /\ (last'.fault # "GetState" =>
                    last'.err = <<"error reading asset", NotFoundMessage>>)
            /\ world' = world
            /\ history' = history
            /\ world'[last'.key] = Nil]_vars

C8_Witness ==
    /\ last.fn = "UpdateAsset"
    /\ ~HasRecord(last.key)
    /\ ~IsNumericText(last.args[1])
    /\ last.err = <<"error reading asset", NotFoundMessage>>
    /\ history[last.key] = <<>>

\* The record InitLedger is to leave under a seed key.
IsSeedRecord(key, asset) ==
    /\ key \in {<<"1234567890">>, <<"9876543210">>}
    /\ asset.MSISDN = key
    /\ asset.DealerID = (IF key = <<"1234567890">> THEN <<"D001">> ELSE <<"D002">>)
    /\ asset.MPIN = (IF key = <<"1234567890">> THEN <<"1234">> ELSE <<"5678">>)
    /\ asset.Balance = (IF key = <<"1234567890">> THEN 1000 ELSE 1500)
    /\ asset.Status = <<"Active">>
    /\ asset.TransAmount = 0
    /\ asset.TransType = <<>>
    /\ asset.Remarks = <<>>

\* C9: after a successful InitLedger on the empty store, the keys that hold
\* a record are exactly the two seed keys, AssetExists is true for both and
\* ReadAsset returns the preset record of each.
C9_InitLedgerSeedsEmptyStore ==
    (last.fn = "InitLedger" /\ last.err = Nil /\ txCount = 1) =>
        /\ {k \in Keys : AssetExists(k, NoFault).ret} = {<<"1234567890">>, <<"9876543210">>}
        /\ \A k \in {<<"1234567890">>, <<"9876543210">>} :
              /\ AssetExists(k, NoFault) = [ret |-> TRUE, err |-> Nil]
              /\ ReadAsset(k, NoFault).err = Nil
              /\ IsSeedRecord(k, ReadAsset(k, NoFault).ret[1])
        /\ \A k \in Keys \ {<<"1234567890">>, <<"9876543210">>} :
              ReadAsset(k, NoFault).err = NewError(NotFoundMessage)

C9_Witness ==
    /\ last.fn = "InitLedger"
    /\ last.err = Nil
    /\ txCount = 1
    /\ ReadAsset(<<"9876543210">>, NoFault).ret[1].Balance = 1500
    /\ Cardinality({k \in Keys : HasRecord(k)}) = 2

\* C10: an InitLedger that meets no stub failure succeeds in every state:
\* each seed key then holds its seed record, whatever it held before, and
\* has one more history entry; record and history of every other key are
\* unchanged.
C10_InitLedgerOverwritesSeeds ==
    [][(last'.fn = "InitLedger" /\ last'.fault = NoFault) =>
            /\ last'.err = Nil
            /\ \A k \in SeedKeys :
                  /\ world'[k] # Nil
                  /\ IsSeedRecord(k, jsonUnmarshal(world'[k]).asset)
                  /\ Len(history'[k]) = Len(history[k]) + 1
            /\ \A k \in Keys \ SeedKeys :
                  world'[k] = world[k] /\ history'[k] = history[k]]_vars

\* InitLedger has replaced a record that CreateAsset put under a seed key.
C10_Witness ==
    /\ last.fn = "InitLedger"
    /\ last.err = Nil
    /\ \E k \in SeedKeys :
          /\ Len(history[k]) = 2
          /\ history[k][1].Fn = "CreateAsset"
          /\ ~IsSeedRecord(k, jsonUnmarshal(history[k][1].Value).asset)
          /\ IsSeedRecord(k, Stored(k))

\* The record the most recent committed write put under key.
NewestWritten(key) == jsonUnmarshal(NewestEntry(key).Value).asset

\* C11: for every key that holds a record, ReadAsset returns, field for
\* field, the record put by the most recent accepted write to the key;
\* after a successful UpdateAsset that is a record with the balance, status,
\* transType and remarks of that update.
C11_ReadReturnsLatestWrite ==
    /\ \A k \in Keys :
          HasRecord(k) =>
              ReadAsset(k, NoFault) = [ret |-> Some(NewestWritten(k)), err |-> Nil]
    /\ (last.fn = "ReadAsset" /\ last.err = Nil) =>
          last.asset = Some(NewestWritten(last.key))
    /\ (last.fn = "UpdateAsset" /\ last.err = Nil) =>
          LET rec == ReadAsset(last.key, NoFault).ret[1] IN
          /\ rec.Balance = DenotedBalance(last.args[1])
          /\ rec.Status = last.args[2]
          /\ rec.TransType = last.args[3]
          /\ rec.Remarks = last.args[4]

\* ReadAsset has returned the record of the second write to a key, which
\* differs from the record of the first.
C11_Witness ==
    /\ last.fn = "ReadAsset"
    /\ last.err = Nil
    /\ Len(history[last.key]) = 2
    /\ last.asset = Some(NewestWritten(last.key))
    /\ last.asset # Some(jsonUnmarshal(history[last.key][1].Value).asset)

\* The arguments of an UpdateAsset equal what the record under key holds.
SameAsStored(key, args) ==
    /\ IsNumericText(args[1])
    /\ Stored(key).Balance = DenotedBalance(args[1])
    /\ Stored(key).Status = args[2]
    /\ Stored(key).TransType = args[3]
    /\ Stored(key).Remarks = args[4]

\* C12: an UpdateAsset whose balance, status, transType and remarks equal
\* those of the stored record is treated as any other update: without a
\* stub failure it returns an error only for a transaction timestamp that
\* does not convert, and when it returns no error the key has exactly one
\* more history entry and the stored Timestamp is the transaction time of
\* this update.
C12_UnchangedUpdateIsAcceptedWrite ==
    [][(/\ last'.fn = "UpdateAsset"
        /\ HasRecord(last'.key)
        /\ SameAsStored(last'.key, last'.args)) =>
            /\ (last'.fault = NoFault /\ last'.err # Nil) =>
                   Head(last'.err) = "error converting timestamp"
            /\ last'.err = Nil =>
                   LET k   == last'.key
                       new == history'[k][Len(history'[k])]
                   IN  /\ Len(history'[k]) = Len(history[k]) + 1
                       /\ new.Fn = "UpdateAsset"
                       /\ ptypesTimestamp(new.Timestamp).err = Nil
                       /\ jsonUnmarshal(world'[k]).asset.Timestamp =
                              ptypesTimestamp(new.Timestamp).t]_vars

\* An UpdateAsset has rewritten a record with the values it had: the two
\* writes differ in the Timestamp only.
C12_Witness ==
    /\ last.fn = "UpdateAsset"
    /\ last.err = Nil
    /\ Len(history[last.key]) = 2
    /\ LET old == jsonUnmarshal(history[last.key][1].Value).asset IN
       /\ [Stored(last.key) EXCEPT !.Timestamp = old.Timestamp] = old
       /\ Stored(last.key).Timestamp # old.Timestamp
       /\ Stored(last.key).Timestamp = NewestTime(last.key).t

\* Time a is not later than time b.
NotLater(a, b) == a.sec < b.sec \/ (a.sec = b.sec /\ a.nsec <= b.nsec)

\* What GetAssetHistory returns for key, oldest entry first.
HistoryInCommitOrder(key) == Reverse(GetAssetHistory(key, NoFault).ret)

\* Every entry GetAssetHistory returns has a transaction identifier, and no
\* two entries of a key have the same.
EntriesIdentified ==
    \A k \in Keys :
        GetAssetHistory(k, NoFault).err = Nil =>
            LET h == HistoryInCommitOrder(k) IN
            /\ \A i \in DOMAIN h : h[i].TxID # GoString("")
            /\ \A i, j \in DOMAIN h : i # j => h[i].TxID # h[j].TxID

\* C13: every entry GetAssetHistory returns has a non-empty transaction
\* identifier, the identifiers of a key are pairwise distinct, and in commit
\* order no entry's timestamp is earlier than that of the entry before it.
\* The timestamps are those of GetTxTimestamp, which the submitting client
\* sets, so an UpdateAsset committed second can carry the earlier time.
C13_HistoryTimestampsOrdered ==
    /\ EntriesIdentified
    /\ \A k \in Keys :
          GetAssetHistory(k, NoFault).err = Nil =>
              LET h == HistoryInCommitOrder(k) IN
              \A i \in DOMAIN h : i > 1 => NotLater(h[i - 1].Timestamp, h[i].Timestamp)

\* The record stored by a CreateAsset that succeeded ignores the transType
\* and remarks passed, and holds the key and balance passed and the given
\* dealerID, MPIN and status.
CreatedRecord(dealerID, mpin, status) ==
    LET rec == Stored(last.key) IN
    /\ HasRecord(last.key)
    /\ rec.TransAmount = 0
    /\ rec.TransType = GoString("")
    /\ rec.Remarks = GoString("")
    /\ rec.MSISDN = last.key
    /\ rec.Balance = last.args[3]
    /\ rec.DealerID = dealerID
    /\ rec.MPIN = mpin
    /\ rec.Status = status

IsPrefix(s, t) == Len(s) <= Len(t) /\ SubSeq(t, 1, Len(s)) = s

\* No step removes or changes an entry of a key's history, and no step
\* removes a record.
NothingRemoved ==
    \A k \in Keys :
        /\ IsPrefix(history[k], history'[k])
        /\ world[k] # Nil => world'[k] # Nil

\* GetAssetHistory returns the entries of the key's history, each with the
\* transaction identifier and the time of its write, and AssetExists is true
\* of exactly the keys that hold a record.
ReadsShowLedger ==
    \A k \in Keys :
        /\ AssetExists(k, NoFault) = [ret |-> HasRecord(k), err |-> Nil]
        /\ GetAssetHistory(k, NoFault).err = Nil =>
              LET h == HistoryInCommitOrder(k) IN
              /\ Len(h) = Len(history[k])
              /\ \A i \in DOMAIN h :
                    /\ h[i].TxID = history[k][i].TxId
                    /\ h[i].Timestamp = ptypesTimestamp(history[k][i].Timestamp).t

WritingFns == {"CreateAsset", "UpdateAsset"}

\* A CreateAsset or UpdateAsset that returns an error changes nothing.
FailedWriteChangesNothing ==
    (last'.fn \in WritingFns /\ last'.err # Nil) =>
        UNCHANGED <<world, history, txCount, writes>>

\* The error a failed CreateAsset returns is that of the first step that
\* failed: existence check, transaction timestamp, store write.
CreateErrorIsFirstFailure ==
    (last.fn = "CreateAsset" /\ (last.err # Nil \/ last.fault # NoFault)) =>
        /\ last.err # Nil
        /\ last.fault = "GetState" => Head(last.err) = "error checking asset existence"
        /\ (last.fault # "GetState" /\ HasRecord(last.key)) =>
               last.err = NewError(AlreadyExistsMessage)
        /\ (last.fault = "GetTxTimestamp" /\ ~HasRecord(last.key)) =>
               Head(last.err) = "error getting transaction timestamp"
        /\ (last.fault = NoFault /\ ~HasRecord(last.key)) =>
               Head(last.err) = "error converting timestamp"
        /\ (last.fault = "PutState" /\ ~HasRecord(last.key)) =>
               last.err = NewError("PutState failed")

\* The error a failed UpdateAsset returns is that of the first step that
\* failed: read, balance parsing, transaction timestamp, store write.
UpdateErrorIsFirstFailure ==
    (last.fn = "UpdateAsset" /\ (last.err # Nil \/ last.fault # NoFault)) =>
        LET parses == HasRecord(last.key) /\ IsNumericText(last.args[1]) IN
        /\ last.err # Nil
        /\ last.fault = "GetState" => Head(last.err) = "error reading asset"
        /\ (last.fault # "GetState" /\ ~HasRecord(last.key)) =>
               last.err = Errorf("error reading asset", NewError(NotFoundMessage))
        /\ (last.fault # "GetState" /\ HasRecord(last.key)
                /\ ~IsNumericText(last.args[1])) =>
               Head(last.err) = ConversionMessage
        /\ (last.fault = "GetTxTimestamp" /\ parses) =>
               Head(last.err) = "error getting transaction timestamp"
        /\ (last.fault = NoFault /\ parses) =>
               Head(last.err) = "error converting timestamp"
        /\ (last.fault = "PutState" /\ parses) =>
               last.err = NewError("PutState failed")

\* No entry of a CreateAsset or UpdateAsset is in a history unless its
\* transaction timestamp converted and its record was serialized.
NoWriteAfterFailure ==
    \A k \in Keys : \A i \in DOMAIN history[k] :
        history[k][i].Fn \in WritingFns =>
            /\ ptypesTimestamp(history[k][i].Timestamp).err = Nil
            /\ jsonUnmarshal(history[k][i].Value).err = Nil

\* The store write is the last step: in every state between invocations,
\* whatever CreateAsset or UpdateAsset is called with, it has put nothing
\* when it returns an error and one value under its key when it does not.
WriteIsLastStep ==
    last = NoCall =>
        \A k \in Keys, p \in Platform({"GetState", "GetTxTimestamp", "PutState"}) :
            /\ \A in \in CreateInputs :
                  LET res == CreateAsset(in[1], k, in[2], in[3], in[4], in[5], in[6],
                                          p.ts, p.fault)
                  IN  IF res.err # Nil THEN res.puts = <<>>
                      ELSE Len(res.puts) = 1 /\ res.puts[1].key = k
            /\ \A in \in UpdateInputs :
                  LET res == UpdateAsset(k, in[1], in[2], in[3], in[4], p.ts, p.fault)
                  IN  IF res.err # Nil THEN res.puts = <<>>
                      ELSE Len(res.puts) = 1 /\ res.puts[1].key = k

\* C17: whichever step of CreateAsset or UpdateAsset fails (existence check
\* or read, balance parsing, transaction timestamp, store write), the
\* invocation returns the error of that step, takes no step after it, and
\* leaves the record and history of every key unchanged; PutState is the
\* last step, so an invocation that returns an error has put nothing.
C17_WriteErrorsAreTerminalAndAtomic ==
    /\ [][FailedWriteChangesNothing]_vars
    /\ []CreateErrorIsFirstFailure
    /\ []UpdateErrorIsFirstFailure
    /\ []NoWriteAfterFailure
    /\ []WriteIsLastStep

\* An UpdateAsset of a stored record with a numeric balance has failed at
\* its last step, the store write, and the record is the one created.
C17_Witness ==
    /\ last.fn = "UpdateAsset"
    /\ last.fault = "PutState"
    /\ last.err = NewError("PutState failed")
    /\ IsNumericText(last.args[1])
    /\ Len(history[last.key]) = 1
    /\ history[last.key][1].Fn = "CreateAsset"
    /\ world[last.key] = history[last.key][1].Value

IdentityOf(asset) == <<asset.DealerID, asset.MSISDN, asset.MPIN>>

\* A successful UpdateAsset leaves DealerID, MSISDN and MPIN of its record,
\* and the record and history of every other key, as they were.
UpdateFrame ==
    (last'.fn = "UpdateAsset" /\ last'.err = Nil) =>
        /\ world[last'.key] # Nil
        /\ world'[last'.key] # Nil
        /\ IdentityOf(jsonUnmarshal(world'[last'.key]).asset)
               = IdentityOf(jsonUnmarshal(world[last'.key]).asset)
        /\ \A k \in Keys \ {last'.key} :
              world'[k] = world[k] /\ history'[k] = history[k]

\* The record under a key has that key as MSISDN, and every record an
\* UpdateAsset wrote has the DealerID, MSISDN and MPIN of the record it
\* replaced.
IdentityKept ==
    \A k \in Keys :
        /\ HasRecord(k) => Stored(k).MSISDN = k
        /\ \A i \in DOMAIN history[k] :
              (i > 1 /\ history[k][i].Fn = "UpdateAsset") =>
                  IdentityOf(jsonUnmarshal(history[k][i].Value).asset)
                      = IdentityOf(jsonUnmarshal(history[k][i - 1].Value).asset)

\* C18: a successful UpdateAsset changes only Balance, Status, TransAmount,
\* TransType, Remarks and Timestamp of the record under its key: DealerID,
\* MSISDN and MPIN stay as they were, the record stays under the same key
\* (the record under k has MSISDN k), and the records and histories of all
\* other keys are unchanged.
C18_UpdateKeepsIdentityAndOtherKeys ==
    /\ [][UpdateFrame]_vars
    /\ []IdentityKept

\* An UpdateAsset has changed balance and status of a seed record, which
\* keeps its dealer, key and secret, while the other seed record is as
\* InitLedger wrote it.
C18_Witness ==
    /\ last.fn = "UpdateAsset"
    /\ last.err = Nil
    /\ last.key = SeedKey1
    /\ history[SeedKey1][1].Fn = "InitLedger"
    /\ Stored(SeedKey1).Balance # jsonUnmarshal(history[SeedKey1][1].Value).asset.Balance
    /\ Stored(SeedKey1).Status # jsonUnmarshal(history[SeedKey1][1].Value).asset.Status
    /\ IdentityOf(Stored(SeedKey1))
           = IdentityOf(jsonUnmarshal(history[SeedKey1][1].Value).asset)
    /\ Stored(SeedKey1).MPIN # GoString("")
    /\ Len(history[SeedKey2]) = 1
    /\ world[SeedKey2] = history[SeedKey2][1].Value

\* An invocation of ReadAsset, AssetExists or GetAssetHistory, whether it
\* succeeds or fails, changes no record and no history.
ReadChangesNothing ==
    last'.fn \in ReadOnlyFns => UNCHANGED <<world, history, txCount, writes>>

ReadFailsNotFound(key, fault) == ReadAsset(key, fault).err = NewError(NotFoundMessage)

\* AssetExists returns true of exactly the keys for which ReadAsset does not
\* fail with the not-found error; when the store itself fails to answer,
\* both return the store's error.
ExistsAgreesWithRead ==
    \A k \in Keys :
        /\ AssetExists(k, NoFault).err = Nil
        /\ AssetExists(k, NoFault).ret <=> ~ReadFailsNotFound(k, NoFault)
        /\ AssetExists(k, NoFault).ret <=> ReadAsset(k, NoFault).err = Nil
        /\ AssetExists(k, "GetState").err # Nil
        /\ ReadAsset(k, "GetState").err # Nil

\* What an invocation of AssetExists returned agrees with what ReadAsset
\* returns for the same key.
ExistsAnswerAgreesWithRead ==
    (last.fn = "AssetExists" /\ last.fault = NoFault) =>
        /\ last.err = Nil
        /\ last.exists <=> ~ReadFailsNotFound(last.key, NoFault)

\* C20: ReadAsset, AssetExists and GetAssetHistory are read-only: called on
\* any key, succeeding or failing, they leave the record and the history of
\* every key unchanged; and AssetExists returns true of a key exactly when
\* ReadAsset of that key does not fail with the not-found error.
C20_ReadsAreReadOnlyAndAgree ==
    /\ [][ReadChangesNothing]_vars
    /\ []ExistsAgreesWithRead
    /\ []ExistsAnswerAgreesWithRead

\* AssetExists has answered true for a key that ReadAsset reads, while
\* another key is absent for both.
C20_Witness ==
    /\ last.fn = "AssetExists"
    /\ last.fault = NoFault
    /\ last.exists
    /\ ReadAsset(last.key, NoFault).err = Nil
    /\ \E k \in Keys :
          /\ ~AssetExists(k, NoFault).ret
          /\ ReadFailsNotFound(k, NoFault)

HistoryFaults == {NoFault, "GetHistoryForKey", "Next"}

\* Whatever key GetAssetHistory is called with and whichever way it returns,
\* it has called Close once on the iterator it opened, and has neither
\* opened nor closed one when GetHistoryForKey failed.
ClosesWhatItOpens ==
    \A k \in Keys, fault \in HistoryFaults :
        LET res == GetAssetHistory(k, fault) IN
        /\ res.closed = res.opened
        /\ res.opened = IF fault = "GetHistoryForKey" THEN 0 ELSE 1
        /\ fault = "GetHistoryForKey" => res.err # Nil
        /\ (fault = "Next" /\ history[k] # <<>>) =>
               Head(res.err) = "error iterating through history"

\* C19: every GetAssetHistory that opens a history iterator closes it
\* exactly once before it returns, whether it completes, Next fails or the
\* timestamp of an entry does not convert; no iterator is open after the
\* call has returned, and none is closed when GetHistoryForKey failed.
C19_HistoryIteratorClosedOnEveryPath ==
    /\ iterators = 0
    /\ ClosesWhatItOpens
    /\ last.fn = "GetAssetHistory" =>
          LET res == GetAssetHistory(last.key, last.fault) IN
          /\ res.err = last.err
          /\ res.closed = res.opened

\* GetAssetHistory has returned the timestamp conversion error for the
\* second entry it read, with its iterator closed.
C19_Witness ==
    /\ last.fn = "GetAssetHistory"
    /\ last.fault = NoFault
    /\ last.err # Nil
    /\ Head(last.err) = "error converting timestamp"
    /\ Len(history[last.key]) = 2
    /\ ptypesTimestamp(history[last.key][2].Timestamp).err = Nil
    /\ ptypesTimestamp(history[last.key][1].Timestamp).err # Nil
    /\ GetAssetHistory(last.key, last.fault).opened = 1
    /\ GetAssetHistory(last.key, last.fault).closed = 1
    /\ iterators = 0

\* Two transactions of CreateAsset or UpdateAsset on the same key that were
\* simulated against the same version of it.
Interleaved(i, j) ==
    /\ i # j
    /\ proposals[i].fn \in WritingFns
    /\ proposals[j].fn \in WritingFns
    /\ proposals[i].key = proposals[j].key
    /\ proposals[i].seen[proposals[i].key] = proposals[j].seen[proposals[j].key]

EntriesOf(n, key) == {i \in DOMAIN history[key] : history[key][i].TxId = TxID(n)}

\* While an endorsed CreateAsset or UpdateAsset of a key waits for
\* validation and nothing else was committed to the key, the contract
\* still answers every other invocation of that function on the key as if
\* the first had not run: it returns no error.
SecondInvocationSucceeds ==
    \A n \in DOMAIN proposals :
        LET t == proposals[n] IN
        (t.status = "endorsed" /\ t.fn \in WritingFns /\ Version(t.key) = t.seen[t.key]) =>
            \A ts \in SubmittedTimestamps :
                /\ t.fn = "CreateAsset" =>
                      \A in \in CreateInputs :
                          CreateAsset(in[1], t.key, in[2], in[3], in[4], in[5], in[6],
                                      ts, NoFault).err = Nil
                /\ t.fn = "UpdateAsset" =>
                      \A in \in {x \in UpdateInputs : IsNumericText(x[1])} :
                          UpdateAsset(t.key, in[1], in[2], in[3], in[4], ts, NoFault).err = Nil

\* Of two interleaved transactions at most one is committed.
AtMostOneCommits ==
    \A i, j \in DOMAIN proposals :
        Interleaved(i, j) =>
            ~(proposals[i].status = "committed" /\ proposals[j].status = "committed")

\* The ledger holds the committed transactions and nothing of the others: a
\* committed transaction has one entry in the history of each key it wrote,
\* a transaction that is not committed has none, and the record of a key is
\* the value of the newest entry of its history.
OnlyCommittedWritesStored ==
    /\ \A n \in DOMAIN proposals : \A k \in Keys :
          Cardinality(EntriesOf(n, k)) =
              IF proposals[n].status = "committed" /\ k \in PutKeys(proposals[n].puts)
              THEN 1 ELSE 0
    /\ \A k \in Keys :
          /\ Len(history[k]) =
                 Cardinality({n \in DOMAIN proposals :
                                 /\ proposals[n].status = "committed"
                                 /\ k \in PutKeys(proposals[n].puts)})
          /\ world[k] = IF history[k] = <<>> THEN Nil ELSE NewestEntry(k).Value

\* The step that invalidates a transaction changes no record and no
\* history, and of two interleaved transactions the one validated second
\* is invalidated.
RejectedWriteDropped ==
    \A n \in DOMAIN proposals :
        /\ (proposals[n].status = "endorsed" /\ proposals'[n].status = "invalid") =>
               UNCHANGED <<world, history>>
        /\ (proposals[n].status = "endorsed" /\ proposals'[n].status = "committed") =>
               \A j \in DOMAIN proposals :
                   (Interleaved(n, j) /\ proposals[j].status = "endorsed") =>
                       /\ Len(history'[proposals[n].key]) = Len(history[proposals[n].key]) + 1
                       /\ proposals'[j].status = "endorsed"
                       /\ proposals'[j].seen[proposals[j].key]
                              # Len(history'[proposals[j].key])

\* C16: when two invocations of CreateAsset or of UpdateAsset on the same
\* key are interleaved, the contract returns no error to either; with the
\* platform invalidating the transaction whose read of the key is stale, at
\* most one of the two is committed, the history of the key gains exactly
\* one entry, the key holds the record of the committed one, and the step
\* that drops the invalidated transaction changes no record and no history.
C16_InterleavedWritesOneCommits ==
    /\ []SecondInvocationSucceeds
    /\ []AtMostOneCommits
    /\ []OnlyCommittedWritesStored
    /\ [][RejectedWriteDropped]_vars

\* Two invocations on the same key with different values were both endorsed
\* against the same version of the key; one is committed and the other
\* invalidated, and the key holds the record of the committed one, with one
\* entry more than both had seen.
C16_Witness ==
    \E i, j \in DOMAIN proposals :
        /\ Interleaved(i, j)
        /\ proposals[i].status = "committed"
        /\ proposals[j].status = "invalid"
        /\ proposals[i].puts # proposals[j].puts
        /\ world[proposals[i].key] = proposals[i].puts[1].value
        /\ world[proposals[i].key] # proposals[j].puts[1].value
        /\ Len(history[proposals[i].key]) = proposals[j].seen[proposals[j].key] + 1
        /\ EntriesOf(j, proposals[j].key) = {}

====
